---------------------------- MODULE Spec2Model ----------------------------
(***************************************************************************)
(* Model of app.py: the SimpleRAG class (load_documents, build_index,      *)
(* retrieve) and the Streamlit handlers that drive one shared instance.    *)
(*                                                                         *)
(* A text is a sequence of one-character strings.  The characters are two  *)
(* letters, the space and the newline; the space and the newline are the   *)
(* whitespace of str.split() and of textwrap.                              *)
(***************************************************************************)
EXTENDS Integers, Sequences, FiniteSets, TLC

\* ------------------------------------------------------------------ bounds

\* Longest raw text of the chunking specification.
MaxTextLen == 6

\* The character budget of load_documents (500 in app.py), scaled down so
\* that bounded texts exceed it.
ChunkBudget == 2

\* Largest k of a direct retrieve call.
MaxK == 3

Letters == {"a", "b"}
Whitespace == {" ", "\n"}
Chars == Letters \cup Whitespace

Min(a, b) == IF a <= b THEN a ELSE b

\* ------------------------------------------------------------ text helpers

IsSpace(c) == c \in Whitespace

RECURSIVE Concat(_)
\* ''.join(parts)
Concat(parts) ==
    IF parts = <<>> THEN <<>> ELSE Head(parts) \o Concat(Tail(parts))

RECURSIVE SumLen(_)
SumLen(parts) ==
    IF parts = <<>> THEN 0 ELSE Len(Head(parts)) + SumLen(Tail(parts))

\* s[i:] and s[:i] of Python, 0-based i
Drop(s, i) == SubSeq(s, i + 1, Len(s))
Take(s, i) == SubSeq(s, 1, i)

\* text.strip() == '' (also true of the empty text)
IsBlank(s) == \A i \in 1..Len(s) : IsSpace(s[i])

RECURSIVE SplitBlankLine(_)
\* doc.split('\n\n'): cut at every non-overlapping "\n\n", left to right
SplitBlankLine(s) ==
    LET hits == {i \in 1..(Len(s) - 1) : s[i] = "\n" /\ s[i + 1] = "\n"}
    IN  IF hits = {} THEN <<s>>
        ELSE LET i == CHOOSE j \in hits : \A h \in hits : j <= h
             IN  <<Take(s, i - 1)>> \o SplitBlankLine(Drop(s, i + 1))

RECURSIVE Runs(_)
\* the maximal runs of whitespace and of non-whitespace of s, in order
Runs(s) ==
    IF s = <<>> THEN <<>>
    ELSE LET cls  == IsSpace(s[1])
             ends == {i \in 1..Len(s) : \A j \in 1..i : IsSpace(s[j]) = cls}
             n    == CHOOSE i \in ends : \A e \in ends : e <= i
         IN  <<Take(s, n)>> \o Runs(Drop(s, n))

\* para.split(): the whitespace-separated words
SplitWords(s) == SelectSeq(Runs(s), LAMBDA r : ~IsBlank(r))

RECURSIVE JoinSpace(_)
\* ' '.join(words)
JoinSpace(ws) ==
    IF ws = <<>> THEN <<>>
    ELSE IF Len(ws) = 1 THEN ws[1]
    ELSE ws[1] \o <<" ">> \o JoinSpace(Tail(ws))

\* cleaned = ' '.join(para.split())
Cleaned(para) == JoinSpace(SplitWords(para))

\* --------------------------------------------------------------- textwrap

RECURSIVE FillLine(_, _, _)
\* TextWrapper._wrap_chunks, the inner loop: move chunks onto the current
\* line while they fit in the width
FillLine(chs, line, width) ==
    IF chs # <<>> /\ SumLen(line) + Len(Head(chs)) <= width
    THEN FillLine(Tail(chs), Append(line, Head(chs)), width)
    ELSE [line |-> line, rest |-> chs]

\* TextWrapper._handle_long_word with break_long_words (the default): the
\* chunk that cannot fit on any line is cut to fill the space left on this one
HandleLongWord(chs, line, width) ==
    LET spaceLeft == IF width < 1 THEN 1 ELSE width - SumLen(line)
        chunk     == Head(chs)
    IN  [line |-> Append(line, Take(chunk, spaceLeft)),
         rest |-> <<Drop(chunk, spaceLeft)>> \o Tail(chs)]

RECURSIVE WrapChunks(_, _, _)
\* TextWrapper._wrap_chunks with drop_whitespace (the default)
WrapChunks(chs, lines, width) ==
    IF chs = <<>> THEN lines
    ELSE LET chs1   == IF IsBlank(Head(chs)) /\ lines # <<>>
                       THEN Tail(chs) ELSE chs
             filled == FillLine(chs1, <<>>, width)
             broken == IF filled.rest # <<>> /\ Len(Head(filled.rest)) > width
                       THEN HandleLongWord(filled.rest, filled.line, width)
                       ELSE filled
             line   == IF broken.line # <<>>
                          /\ IsBlank(broken.line[Len(broken.line)])
                       THEN Take(broken.line, Len(broken.line) - 1)
                       ELSE broken.line
             lines1 == IF line # <<>> THEN Append(lines, Concat(line))
                       ELSE lines
         IN  WrapChunks(broken.rest, lines1, width)

\* textwrap.wrap(text, width): split into words and whitespace runs, then
\* fill lines
TextWrap(text, width) ==
    WrapChunks(SelectSeq(Runs(text), LAMBDA r : r # <<>>), <<>>, width)

\* ------------------------------------------------------- load_documents

\* (mutant) the "if cleaned:" test is missing: an empty paragraph is kept
ParaChunksKeepEmpty(para) ==
    LET cleaned == Cleaned(para)
    IN  IF Len(cleaned) > ChunkBudget THEN TextWrap(cleaned, ChunkBudget)
        ELSE <<cleaned>>

\* (mutant) the length test and the wrap are missing
ParaChunksNoWrap(para) ==
    LET cleaned == Cleaned(para)
    IN  IF cleaned = <<>> THEN <<>> ELSE <<cleaned>>

\* the chunks one paragraph contributes
ParaChunks(para) ==
    LET cleaned == Cleaned(para)
    IN  IF cleaned = <<>> THEN <<>>
        ELSE IF Len(cleaned) > ChunkBudget THEN TextWrap(cleaned, ChunkBudget)
        ELSE <<cleaned>>

RECURSIVE ParasChunks(_)
ParasChunks(paras) ==
    IF paras = <<>> THEN <<>>
    ELSE ParaChunks(Head(paras)) \o ParasChunks(Tail(paras))

RECURSIVE LoadDocuments(_)
\* SimpleRAG.load_documents: self.chunks is emptied, then every paragraph
\* of every document adds its chunks; the value is self.chunks at the return
LoadDocuments(documents) ==
    IF documents = <<>> THEN <<>>
    ELSE ParasChunks(SplitBlankLine(Head(documents)))
         \o LoadDocuments(Tail(documents))

\* ------------------------------------------- embedding provider and faiss

RECURSIVE Count(_, _)
Count(s, c) ==
    IF s = <<>> THEN 0
    ELSE (IF Head(s) = c THEN 1 ELSE 0) + Count(Tail(s), c)

\* SentenceTransformer.encode on one text: a deterministic vector of a fixed
\* dimension (here 2: how many of each letter the text holds)
Embed(text) == <<Count(text, "a"), Count(text, "b")>>

\* model.encode(self.chunks)
EmbedAll(texts) == [i \in 1..Len(texts) |-> Embed(texts[i])]

\* squared L2 distance, the metric of faiss.IndexFlatL2
L2(u, v) == (u[1] - v[1]) * (u[1] - v[1]) + (u[2] - v[2]) * (u[2] - v[2])

\* The distance faiss reports in a result slot it could not fill (the largest
\* float32); larger than any distance between modelled vectors.
FLT_MAX == 1000000

\* self.index = None
NoIndex == [isNone |-> TRUE, vectors |-> <<>>]

\* the number of vectors an index holds (index.ntotal), 0 for None
NTotal(ix) == Len(ix.vectors)

RECURSIVE Nearest(_, _, _, _)
\* faiss IndexFlatL2.search for one query vector: k slots, nearest first
\* (equal distances by label), labels 0-based; when the index holds fewer
\* than k vectors the remaining slots hold label -1 and distance FLT_MAX
Nearest(vectors, q, k, taken) ==
    IF k = 0 THEN <<>>
    ELSE LET cand == (1..Len(vectors)) \ taken
         IN  IF cand = {}
             THEN <<[dist |-> FLT_MAX, label |-> -1]>>
                  \o Nearest(vectors, q, k - 1, taken)
             ELSE LET best == CHOOSE i \in cand : \A j \in cand :
                                  \/ L2(vectors[i], q) < L2(vectors[j], q)
                                  \/ /\ L2(vectors[i], q) = L2(vectors[j], q)
                                     /\ i <= j
                  IN  <<[dist |-> L2(vectors[best], q), label |-> best - 1]>>
                      \o Nearest(vectors, q, k - 1, taken \cup {best})

IndexSearch(ix, q, k) == Nearest(ix.vectors, q, k, {})

\* ----------------------------------------------------------- build_index

\* SimpleRAG.build_index: the value of self.index after the call; with no
\* chunks the method returns early and self.index keeps its value
BuildIndex(chs, ix) ==
    IF chs = <<>> THEN ix
    ELSE [isNone |-> FALSE, vectors |-> EmbedAll(chs)]

\* -------------------------------------------------------------- retrieve

\* Python's list[idx]: idx in -n..n-1 is a position, anything else raises
\* IndexError
PyInRange(s, idx) == -Len(s) <= idx /\ idx < Len(s)
PyGet(s, idx) == IF idx >= 0 THEN s[idx + 1] ELSE s[Len(s) + idx + 1]

NoResult == [raised |-> FALSE, items |-> <<>>]

\* the loop of retrieve over the (distance, label) slots: one entry per slot,
\* or IndexError at the first label that is no position of self.chunks
FormatResults(chs, hits) ==
    IF \E i \in 1..Len(hits) : ~PyInRange(chs, hits[i].label)
    THEN [raised |-> TRUE, items |-> <<>>]
    ELSE [raised |-> FALSE,
          items  |-> [i \in 1..Len(hits) |->
                         [chunk |-> PyGet(chs, hits[i].label),
                          score |-> hits[i].dist,
                          rank  |-> i]]]

\* SimpleRAG.retrieve: what the call returns (or that it raised)
RetrieveResult(chs, ix, query, k) ==
    IF ix.isNone THEN NoResult
    ELSE FormatResults(chs, IndexSearch(ix, Embed(query), k))


\* ------------------------------------------------------------------ state

VARIABLES
    chunks,     \* self.chunks of the one SimpleRAG instance
    index,      \* self.index: NoIndex, or the vectors the faiss index holds
    previous,   \* history: self.chunks before the last load_documents
    call,       \* history: the last operation and its arguments
    result,     \* what the last retrieve returned, or that it raised
    encoded,    \* history: whether the last operation invoked model.encode
    ui,         \* the message the last Streamlit handler showed
    pc,         \* per browser session: where its script run stands
    local       \* per browser session: the locals of its running handler

vars == <<chunks, index, previous, call, result, encoded, ui, pc, local>>

\* Browser sessions sharing the instance in the interleaved specification.
NumSessions == 2
Sessions == 1..NumSessions

\* st.slider(min_value=1, max_value=5)
SliderMin == 1
SliderMax == 5

\* docs: the documents of the last load_documents; again: this retrieve has
\* the arguments of the retrieve just before it
Call(op, docs, query, k) ==
    [op |-> op, docs |-> docs, query |-> query, k |-> k, again |-> FALSE]

IdleLocal ==
    [done |-> "", emb |-> <<>>, hits |-> <<>>, snap |-> <<>>, pairOk |-> TRUE]

\* SimpleRAG.__init__ and a page nobody has used yet
Start ==
    /\ chunks = <<>>
    /\ index = NoIndex
    /\ previous = <<>>
    /\ result = NoResult
    /\ encoded = FALSE
    /\ ui = ""
    /\ pc = [s \in Sessions |-> "idle"]
    /\ local = [s \in Sessions |-> IdleLocal]

NoSessionStep == UNCHANGED <<pc, local>>

\* ------------------------------------------------------------- documents

DocA == <<"a">>
DocAB == <<"a", "\n", "\n", "b">>
DocABC == <<"a", "\n", "\n", "b", "\n", "\n", "a", "b">>
DocBlank == <<" ">>
DocWrap == <<"a", "b", " ", "a">>

Docs == {DocA, DocAB, DocABC, DocBlank, DocWrap}
DocLists == {<<>>} \cup {<<d>> : d \in Docs}
            \cup {<<d, e>> : d \in {DocA, DocBlank}, e \in Docs}

Queries == {<<"a">>, <<"b", "b">>, <<"a", " ", "b">>}

\* the sample text of the Load Sample Data button: its paragraphs are
\* separated by a line of spaces, not by an empty line, so they are one
\* paragraph to load_documents, which is longer than the chunk budget and
\* wraps into two chunks
SampleData == <<"a", "b", "\n", " ", "\n", "b">>

\* -------------------------------------- the class, called directly (Spec)

\* (mutant) load_documents without its first statement, self.chunks = []
AddDocumentsAppend(documents) ==
    /\ chunks' = chunks \o LoadDocuments(documents)
    /\ index' = BuildIndex(chunks', index)
    /\ previous' = chunks
    /\ call' = Call("add", documents, <<>>, 0)
    /\ encoded' = (chunks' # <<>>)
    /\ UNCHANGED <<result, ui>>
    /\ NoSessionStep

\* add documents: load_documents(documents) followed by build_index()
AddDocuments(documents) ==
    /\ chunks' = LoadDocuments(documents)
    /\ index' = BuildIndex(chunks', index)
    /\ previous' = chunks
    /\ call' = Call("add", documents, <<>>, 0)
    /\ encoded' = (chunks' # <<>>)
    /\ UNCHANGED <<result, ui>>
    /\ NoSessionStep

\* (mutant) retrieve also adds the query's embedding to the index
RetrieveAddsQuery(query, k) ==
    /\ result' = RetrieveResult(chunks, index, query, k)
    /\ call' = [Call("retrieve", call.docs, query, k) EXCEPT !.again =
                    call.op = "retrieve" /\ call.query = query /\ call.k = k]
    /\ encoded' = ~index.isNone
    /\ index' = IF index.isNone THEN index
                 ELSE [index EXCEPT !.vectors = Append(@, Embed(query))]
    /\ UNCHANGED <<chunks, previous, ui>>
    /\ NoSessionStep

\* retrieve(query, k)
Retrieve(query, k) ==
    /\ result' = RetrieveResult(chunks, index, query, k)
    /\ call' = [Call("retrieve", call.docs, query, k) EXCEPT !.again =
                    call.op = "retrieve" /\ call.query = query /\ call.k = k]
    /\ encoded' = ~index.isNone
    /\ UNCHANGED <<chunks, index, previous, ui>>
    /\ NoSessionStep

Init ==
    /\ Start
    /\ call = Call("init", <<>>, <<>>, 0)

Next ==
    \/ \E documents \in DocLists : AddDocuments(documents)
    \/ \E query \in Queries, k \in 1..MaxK : Retrieve(query, k)

Spec == Init /\ [][Next]_vars

\* ------------------------------------- load_documents alone (SpecChunk)

RECURSIVE Texts(_)
\* every text of at most n characters
Texts(n) ==
    IF n = 0 THEN {<<>>}
    ELSE LET shorter == Texts(n - 1)
         IN  shorter \cup {Append(t, c) : t \in shorter, c \in Chars}

\* "A.\n\nB.\n\nC."
ThreeParagraphs ==
    <<"A", ".", "\n", "\n", "B", ".", "\n", "\n", "C", ".">>

\* load_documents([text]) on a fresh instance
LoadOnly ==
    /\ call.op = "input"
    /\ chunks' = LoadDocuments(call.docs)
    /\ call' = [call EXCEPT !.op = "load_documents"]
    /\ previous' = chunks
    /\ UNCHANGED <<index, result, encoded, ui>>
    /\ NoSessionStep

InitChunk ==
    /\ Start
    /\ \E text \in Texts(MaxTextLen) \cup {ThreeParagraphs} :
           call = Call("input", <<text>>, <<>>, 0)

NextChunk == LoadOnly

SpecChunk == InitChunk /\ [][NextChunk]_vars

\* ------------------------------------ the Streamlit page, one run at a time

MsgProcessed == "Documents processed successfully!"
MsgNoDocuments == "Please enter some documents first."
MsgNoIndex == "Please add and process some documents first!"
MsgNoQuestion == "Please enter a question!"
MsgResults == "Results:"
MsgNoResults == "No results found. Try a different query or add more documents."
MsgSample == "Sample data loaded!"
MsgException == "IndexError"

UITexts == {<<>>, <<" ">>, <<"\n", "\n">>, DocA, DocAB, DocABC, DocWrap}
UIQueries == {<<>>, <<" ">>, <<"a">>, <<"b", "b">>}

\* what the page shows after rag.retrieve returned r (or raised)
Rendered(r) ==
    IF r.raised THEN MsgException
    ELSE IF r.items # <<>> THEN MsgResults
    ELSE MsgNoResults

\* (mutant) the handler without its doc_input.strip() test
ProcessDocumentsUnguarded(text) ==
    /\ call' = Call("process", <<text>>, <<>>, 0)
    /\ chunks' = LoadDocuments(<<text>>)
    /\ index' = BuildIndex(chunks', index)
    /\ previous' = chunks
    /\ encoded' = (chunks' # <<>>)
    /\ ui' = MsgProcessed
    /\ UNCHANGED result
    /\ NoSessionStep

\* a script run with the Process Documents button pressed
ProcessDocuments(text) ==
    /\ call' = Call("process", <<text>>, <<>>, 0)
    /\ IF ~IsBlank(text)
       THEN /\ chunks' = LoadDocuments(<<text>>)
            /\ index' = BuildIndex(chunks', index)
            /\ previous' = chunks
            /\ encoded' = (chunks' # <<>>)
            /\ ui' = MsgProcessed
       ELSE /\ UNCHANGED <<chunks, index, previous>>
            /\ encoded' = FALSE
            /\ ui' = MsgNoDocuments
    /\ UNCHANGED result
    /\ NoSessionStep

\* (mutant) the handler without its query.strip() test
SearchUnguarded(query, k) ==
    /\ call' = Call("search", call.docs, query, k)
    /\ IF index.isNone
       THEN /\ ui' = MsgNoIndex
            /\ encoded' = FALSE
            /\ UNCHANGED result
       ELSE /\ result' = RetrieveResult(chunks, index, query, k)
            /\ encoded' = TRUE
            /\ ui' = Rendered(result')
    /\ UNCHANGED <<chunks, index, previous>>
    /\ NoSessionStep

\* a script run with the Search button pressed
Search(query, k) ==
    /\ call' = Call("search", call.docs, query, k)
    /\ IF index.isNone
       THEN /\ ui' = MsgNoIndex
            /\ encoded' = FALSE
            /\ UNCHANGED result
       ELSE IF IsBlank(query)
       THEN /\ ui' = MsgNoQuestion
            /\ encoded' = FALSE
            /\ UNCHANGED result
       ELSE /\ result' = RetrieveResult(chunks, index, query, k)
            /\ encoded' = TRUE
            /\ ui' = Rendered(result')
    /\ UNCHANGED <<chunks, index, previous>>
    /\ NoSessionStep

\* a script run with the Load Sample Data button pressed
LoadSampleData ==
    /\ call' = Call("sample", <<SampleData>>, <<>>, 0)
    /\ chunks' = LoadDocuments(<<SampleData>>)
    /\ index' = BuildIndex(chunks', index)
    /\ previous' = chunks
    /\ encoded' = (chunks' # <<>>)
    /\ ui' = MsgSample
    /\ UNCHANGED result
    /\ NoSessionStep

NextUI ==
    \/ \E text \in UITexts : ProcessDocuments(text)
    \/ \E query \in UIQueries, k \in SliderMin..SliderMax : Search(query, k)
    \/ LoadSampleData

SpecUI == Init /\ [][NextUI]_vars

\* ----------------------- the page used from several browser sessions
\* st.cache_resource hands the same SimpleRAG object to every session, and
\* Streamlit runs each session's script in a thread of its own: the
\* statements of one handler interleave with those of another.

SessionTexts == {DocA, <<" ">>}
SessionQueries == {<<"a">>, <<>>}

Goto(s, label) == pc' = [pc EXCEPT ![s] = label]

\* Process Documents or Load Sample Data, up to the return of
\* rag.load_documents([text])
SLoad(s, text, done) ==
    /\ pc[s] = "idle"
    /\ encoded' = FALSE
    /\ IF ~IsBlank(text)
       THEN /\ chunks' = LoadDocuments(<<text>>)
            /\ local' = [local EXCEPT ![s].done = done]
            /\ Goto(s, "build_index")
            /\ UNCHANGED ui
       ELSE /\ ui' = MsgNoDocuments
            /\ UNCHANGED <<chunks, pc, local>>
    /\ UNCHANGED <<index, previous, call, result>>

SProcessDocuments(s, text) == SLoad(s, text, MsgProcessed)

SLoadSampleData(s) == SLoad(s, SampleData, MsgSample)

\* build_index: the early return, or embeddings = self.model.encode(self.chunks)
SEncode(s) ==
    /\ pc[s] = "build_index"
    /\ IF chunks = <<>>
       THEN /\ Goto(s, "idle")
            /\ ui' = local[s].done
            /\ UNCHANGED <<local, encoded>>
       ELSE /\ local' = [local EXCEPT ![s].emb = EmbedAll(chunks)]
            /\ encoded' = TRUE
            /\ Goto(s, "new_index")
            /\ UNCHANGED ui
    /\ UNCHANGED <<chunks, index, previous, call, result>>

\* build_index: self.index = faiss.IndexFlatL2(dimension)
SNewIndex(s) ==
    /\ pc[s] = "new_index"
    /\ index' = [isNone |-> FALSE, vectors |-> <<>>]
    /\ Goto(s, "add")
    /\ UNCHANGED <<chunks, previous, call, result, encoded, ui, local>>

\* build_index: self.index.add(embeddings), then the handler's success message
SIndexAdd(s) ==
    /\ pc[s] = "add"
    /\ index' = [index EXCEPT !.vectors = @ \o local[s].emb]
    /\ ui' = local[s].done
    /\ local' = [local EXCEPT ![s] = IdleLocal]
    /\ Goto(s, "idle")
    /\ UNCHANGED <<chunks, previous, call, result, encoded>>

\* Search, up to the return of self.index.search in retrieve.  snap and
\* pairOk record the corpus the search ran against: the chunks at that
\* moment, and whether the index held exactly their embeddings.
SSearch(s, query, k) ==
    /\ pc[s] = "idle"
    /\ IF index.isNone
       THEN /\ ui' = MsgNoIndex
            /\ encoded' = FALSE
            /\ UNCHANGED <<pc, local>>
       ELSE IF IsBlank(query)
       THEN /\ ui' = MsgNoQuestion
            /\ encoded' = FALSE
            /\ UNCHANGED <<pc, local>>
       ELSE /\ local' = [local EXCEPT ![s] =
                           [IdleLocal EXCEPT
                              !.hits   = IndexSearch(index, Embed(query), k),
                              !.snap   = chunks,
                              !.pairOk = (index.vectors = EmbedAll(chunks))]]
            /\ encoded' = TRUE
            /\ Goto(s, "format")
            /\ UNCHANGED ui
    /\ UNCHANGED <<chunks, index, previous, call, result>>

\* retrieve: the loop that reads self.chunks[idx], and the rendering
SFormat(s) ==
    /\ pc[s] = "format"
    /\ result' = FormatResults(chunks, local[s].hits)
    /\ ui' = Rendered(result')
    /\ local' = [local EXCEPT ![s] = IdleLocal]
    /\ Goto(s, "idle")
    /\ UNCHANGED <<chunks, index, previous, call, encoded>>

NextSessions ==
    \E s \in Sessions :
        \/ \E text \in SessionTexts : SProcessDocuments(s, text)
        \/ SLoadSampleData(s)
        \/ SEncode(s)
        \/ SNewIndex(s)
        \/ SIndexAdd(s)
        \/ \E query \in SessionQueries, k \in SliderMin..SliderMax :
               SSearch(s, query, k)
        \/ SFormat(s)

SpecSessions == Init /\ [][NextSessions]_vars

\* ------------------------------------------------------------- properties

Range(s) == {s[i] : i \in 1..Len(s)}

\* the text handed to load_documents in SpecChunk
InputText == call.docs[1]

Loaded == call.op = "load_documents"

RECURSIVE RStrip(_)
\* a text without its trailing whitespace
RStrip(s) ==
    IF s # <<>> /\ IsSpace(s[Len(s)]) THEN RStrip(Take(s, Len(s) - 1)) ELSE s

\* the non-whitespace characters of a text, in order
NonSpace(s) == SelectSeq(s, LAMBDA c : ~IsSpace(c))

\* no leading or trailing whitespace and no two whitespace characters in a row
Collapsed(s) ==
    /\ s # <<>> => ~IsSpace(s[1]) /\ ~IsSpace(s[Len(s)])
    /\ \A i \in 1..(Len(s) - 1) : ~(IsSpace(s[i]) /\ IsSpace(s[i + 1]))

RECURSIVE WordsOfAll(_)
\* the words read off a sequence of passages, in order
WordsOfAll(passages) ==
    IF passages = <<>> THEN <<>>
    ELSE SplitWords(Head(passages)) \o WordsOfAll(Tail(passages))

LongWords(text) == {w \in Range(SplitWords(text)) : Len(w) > ChunkBudget}

\* C1 (as claimed): on a populated corpus, retrieve(query, k) returns exactly
\* min(k, number of chunks) results, with no padding entries when k is larger
\* than the corpus.
C1_LengthIsMinOfKAndCorpus ==
    (call.op = "retrieve" /\ chunks # <<>>)
        => /\ ~result.raised
           /\ Len(result.items) = Min(call.k, Len(chunks))

\* C2 (as claimed): after any sequence of add-documents and retrieve calls the
\* number of chunks equals the number of vectors the index holds (none for a
\* None index).
C2_ChunkCountEqualsVectorCount == Len(chunks) = NTotal(index)

\* C3: every entry a retrieve returns is a passage of the documents of the
\* last add-documents call; a passage that only an earlier corpus held is
\* never returned.
C3_ResultsComeFromCurrentCorpus ==
    call.op = "retrieve"
        => \A i \in 1..Len(result.items) :
               /\ result.items[i].chunk \in Range(LoadDocuments(call.docs))
               /\ result.items[i].chunk \notin
                      Range(previous) \ Range(LoadDocuments(call.docs))

\* C3 witness: the corpus was replaced by a strict subset of the one before
\* and a retrieve has returned entries.
C3_RetrievedAfterShrinking ==
    /\ call.op = "retrieve"
    /\ result.items # <<>>
    /\ Range(chunks) \subseteq Range(previous)
    /\ Range(chunks) # Range(previous)

\* C4 (as claimed): with no chunks, retrieve returns the empty list and does
\* not raise, at the start and after a replacement that produced no chunks.
C4_EmptyCorpusGivesEmptyResult ==
    (call.op = "retrieve" /\ chunks = <<>>)
        => /\ ~result.raised
           /\ result.items = <<>>

\* C5 (as claimed): a chunk is longer than the budget only when it is a single
\* word longer than the budget, and a word longer than the budget is emitted
\* whole as a chunk of its own, never split.
C5_LongWordEmittedWhole ==
    Loaded
        => /\ \A i \in 1..Len(chunks) :
                  \/ Len(chunks[i]) <= ChunkBudget
                  \/ chunks[i] \in LongWords(InputText)
           /\ \A w \in LongWords(InputText) : w \in Range(chunks)

\* C5 (amended): every chunk load_documents produces is non-empty and within
\* the budget, with no exception; a word longer than the budget is never a
\* chunk: it is split into pieces that fit.
C5_EveryChunkWithinBudget ==
    Loaded
        => /\ \A i \in 1..Len(chunks) :
                  1 <= Len(chunks[i]) /\ Len(chunks[i]) <= ChunkBudget
           /\ \A w \in LongWords(InputText) : w \notin Range(chunks)

\* C5 witness: a text with a word longer than the budget has been loaded.
C5_LongWordLoaded ==
    /\ Loaded
    /\ LongWords(InputText) # {}
    /\ Len(chunks) >= 2

\* the empty text gives no passage, and "A.\n\nB.\n\nC." gives its three
\* paragraphs
Scenarios ==
    /\ InputText = <<>> => chunks = <<>>
    /\ InputText = ThreeParagraphs
           => chunks = <<<<"A", ".">>, <<"B", ".">>, <<"C", ".">>>>

\* C6 (as claimed): passages are non-empty, without leading or trailing
\* whitespace or runs of whitespace, and the words read off the passages in
\* order are the words of the input.
C6_WordSequencePreserved ==
    Loaded
        => /\ \A i \in 1..Len(chunks) : chunks[i] # <<>> /\ Collapsed(chunks[i])
           /\ WordsOfAll(chunks) = SplitWords(InputText)
           /\ Scenarios

\* C6 (amended): passages are non-empty, never start with whitespace and hold
\* no run of whitespace; one may end in a space, and only when the input has a
\* word longer than the budget; the non-whitespace characters of the
\* passages, in order, are those of the input; the words are the words of the
\* input whenever no cleaned paragraph is longer than the budget (a longer
\* paragraph may have a word split across passages).
C6_CharactersPreserved ==
    Loaded
        => /\ \A i \in 1..Len(chunks) :
                  /\ ~IsBlank(chunks[i])
                  /\ Collapsed(RStrip(chunks[i]))
                  /\ Len(chunks[i]) - Len(RStrip(chunks[i])) <= 1
                  /\ LongWords(InputText) = {} => Collapsed(chunks[i])
           /\ NonSpace(Concat(chunks)) = NonSpace(InputText)
           /\ (\A para \in Range(SplitBlankLine(InputText)) :
                   Len(Cleaned(para)) <= ChunkBudget)
                  => WordsOfAll(chunks) = SplitWords(InputText)
           /\ Scenarios

\* C6 witness: a text with a run of whitespace and a paragraph longer than the
\* budget has been loaded into several passages.
C6_WrappedTextLoaded ==
    /\ Loaded
    /\ Len(chunks) >= 2
    /\ ~Collapsed(InputText)
    /\ \E para \in Range(SplitBlankLine(InputText)) :
           Len(Cleaned(para)) > ChunkBudget

\* C7: a Search with a blank query is rejected with a message and does not
\* invoke model.encode, whether or not an index exists.
C7_BlankQueryNeverEncoded ==
    (call.op = "search" /\ IsBlank(call.query))
        => /\ ~encoded
           /\ ui \in {MsgNoIndex, MsgNoQuestion}

\* C7 witness: a blank query was submitted while an index existed.
C7_BlankQueryOnIndexedCorpus ==
    /\ call.op = "search"
    /\ IsBlank(call.query)
    /\ ~index.isNone
    /\ ui = MsgNoQuestion

\* C8: retrieve leaves chunks and index as they are, and a retrieve with the
\* arguments of the retrieve just before it returns the same result.
C8_RetrieveIdempotent ==
    [][call'.op = "retrieve"
          => /\ chunks' = chunks
             /\ index' = index
             /\ (call.op = "retrieve" /\ call'.query = call.query
                                      /\ call'.k = call.k)
                    => result' = result]_vars

\* C8 witness: a retrieve repeated with the same arguments returned entries.
C8_RepeatedRetrieve ==
    /\ call.op = "retrieve"
    /\ call.again
    /\ result.items # <<>>

\* C9 (as claimed): a retrieve in progress searched an index that held exactly
\* the embeddings of the chunks, and reads the chunks it searched.
C9_RetrieveSeesOneCorpus ==
    \A s \in Sessions :
        pc[s] = "format" => local[s].pairOk /\ local[s].snap = chunks

\* C10: over Process Documents, Load Sample Data and Search runs, a set index
\* holds exactly the embeddings of the non-empty chunks, no Search raises on
\* reading a chunk, and Process Documents with blank text changes neither
\* chunks nor index.
C10_PageKeepsIndexInStep ==
    /\ [](/\ ~index.isNone
              => chunks # <<>> /\ index.vectors = EmbedAll(chunks)
          /\ call.op = "search" => ~result.raised
          /\ ui # MsgException)
    /\ [][(call'.op = "process" /\ IsBlank(call'.docs[1]))
             => chunks' = chunks /\ index' = index]_vars

\* C10 witness: after the corpus was replaced, a Search asked for more results
\* than there are chunks and rendered results.
C10_SearchBeyondCorpus ==
    /\ call.op = "search"
    /\ ui = MsgResults
    /\ call.k > Len(chunks)
    /\ previous # <<>>

=============================================================================
